---- MODULE Spec2Model ----
(***************************************************************************)
(* Model of the grid view components of pemon-information-table:           *)
(*   DemonsGridComponent   (the /demons route),                            *)
(*   AppComponent          (the root view, first class of                  *)
(*                          app.component.ts),                             *)
(*   AppComponent, second variant (second class of app.component.ts).      *)
(* One behaviour follows one component instance; `view` says which class   *)
(* it is.  The fields that the classes share by name (enableRowStyle,      *)
(* rowData, rawData, colDefs) are one variable each.  Every event handler  *)
(* runs to completion (single UI thread), so every handler is one action.  *)
(***************************************************************************)
EXTENDS Integers, Sequences, FiniteSets, TLC

VARIABLES
    view,                 \* which component class this instance is
    enableRowStyle,       \* this.enableRowStyle
    gridApi,              \* this.gridApi / this.gridOptions.api
    gridReady,            \* the grid has emitted its gridReady event
    rowData,              \* this.rowData ([has |-> FALSE] models undefined)
    rawData,              \* this.rawData
    colDefs,              \* this.colDefs
    fetch,                \* the http.get(assets/*.json) subscription
    cartFetch,            \* the cartService.getRowData() subscription
    errorLog,             \* number of console.error calls
    uncaught,             \* number of errors nobody handled
    timers,               \* pending setTimeout(..., 0) augmenter callbacks
    paginationPanel,      \* document.querySelector('.ag-paging-panel') exists
    customPaginationText, \* number of elements with that id
    toggleContainer,      \* number of elements with that id
    rowStyleToggle,       \* the first input#rowStyleToggle
    datasetSwitch,        \* number of elements with that id
    datasetToggle,        \* the first input#datasetToggle
    navigations,          \* number of router.navigateByUrl('') calls
    gridLog,              \* calls made on the grid api, in order
    nFlips,               \* number of runs of the code that switches enableRowStyle
    lastOp,               \* the handler or operation that ran last
    foundExisting,        \* an augmenter run has found all its elements present
    calc                  \* the comparator / formatTime call being evaluated

vars == <<view, enableRowStyle, gridApi, gridReady, rowData, rawData, colDefs,
          fetch, cartFetch, errorLog, uncaught, timers, paginationPanel,
          customPaginationText, toggleContainer, rowStyleToggle,
          datasetSwitch, datasetToggle, navigations, gridLog, nFlips, lastOp, foundExisting,
          calc>>

\* everything but the call being evaluated
instanceVars == <<view, enableRowStyle, gridApi, gridReady, rowData, rawData, colDefs,
                  fetch, cartFetch, errorLog, uncaught, timers, paginationPanel,
                  customPaginationText, toggleContainer, rowStyleToggle,
                  datasetSwitch, datasetToggle, navigations, gridLog, nFlips, lastOp,
                  foundExisting>>

componentVars == <<enableRowStyle, gridApi, gridReady, colDefs, gridLog, nFlips>>
dataVars == <<rowData, rawData, fetch, cartFetch, errorLog, uncaught>>
domVars == <<foundExisting, paginationPanel, customPaginationText, toggleContainer,
             rowStyleToggle, datasetSwitch, datasetToggle>>

\* ------------------------------------------------------------------------
\* Bounds
\* ------------------------------------------------------------------------
MaxFlips == 3      \* switches of enableRowStyle followed in one behaviour
MaxTimers == 2     \* augmenter callbacks pending at once
MaxNavigations == 1
MaxErrors == 2     \* console.error calls / unhandled errors counted

\* ------------------------------------------------------------------------
\* Values
\* ------------------------------------------------------------------------
Views == {"DemonsGridComponent", "AppComponent", "AppComponentV2"}

DifficultyOrder == <<"Easy Demon", "Medium Demon", "Hard Demon", "Insane Demon", "Extreme Demon">>
RatingOrder == <<"Rated", "Featured", "Epic", "Legendary", "Mythic">>

Range(s) == {s[i] : i \in DOMAIN s}

\* values a record of the data source can carry in the two fields
DifficultyValues == Range(DifficultyOrder) \cup {"easy demon", "Unknown"}
RatingValues == Range(RatingOrder) \cup {"rated", "Unknown"}

\* an ID is <<>> (absent / undefined) or <<n>> (the number n)
IDValues == {<<>>, <<0>>, <<1>>, <<2>>}

Rows == [ID : IDValues, difficulty : DifficultyValues, rating : RatingValues]

\* JavaScript truthiness of an optional number
Truthy(id) == id # <<>> /\ id[1] # 0

Row(id, d, r) == [ID |-> id, difficulty |-> d, rating |-> r]

\* payloads a fetch can deliver
Datasets == { <<>>,
              <<Row(<<1>>, "Easy Demon", "Rated")>>,
              <<Row(<<2>>, "Extreme Demon", "Mythic"), Row(<<0>>, "Unknown", "Featured")>> }

Undefined == [has |-> FALSE, rows |-> <<>>]
Defined(rows) == [has |-> TRUE, rows |-> rows]

\* ------------------------------------------------------------------------
\* Column definitions.  A cellClassRules object is a set of rules
\* [cls, field, value]: class cls applies when row[field] === value.
\* hasRules = FALSE models a column without a cellClassRules property.
\* ------------------------------------------------------------------------
Rule(cls, field, value) == [cls |-> cls, field |-> field, value |-> value]

Col(field) == [field |-> field, hasRules |-> FALSE, cellClassRules |-> {}]
ColWithRules(field, rules) == [field |-> field, hasRules |-> TRUE, cellClassRules |-> rules]

\* the rule literals of the colDefs initialisers
ColDefsDifficultyRules ==
    { Rule("easy", "difficulty", "Easy Demon"),
      Rule("medium", "difficulty", "Medium Demon"),
      Rule("hard", "difficulty", "Hard Demon"),
      Rule("insane", "difficulty", "Insane Demon"),
      Rule("extreme", "difficulty", "Extreme Demon") }

ColDefsRatingRules ==
    { Rule("featured", "rating", "Featured"),
      Rule("epic", "rating", "Epic"),
      Rule("legendary", "rating", "Legendary"),
      Rule("mythic", "rating", "Mythic") }

DemonsColDefs ==
    << Col("number"), Col("level"), Col("creator"), Col("ID"),
       ColWithRules("difficulty", ColDefsDifficultyRules),
       ColWithRules("rating", ColDefsRatingRules),
       Col("userCoins"), Col("length"), Col("objects"), Col("twop"),
       Col("primarySong"), Col("artist"), Col("songID") >>

AppColDefs ==
    << Col("number"), Col("level"), Col("creator"), Col("ID"),
       ColWithRules("difficulty", ColDefsDifficultyRules),
       ColWithRules("rating", ColDefsRatingRules),
       Col("userCoins"), Col("estimatedTime"), Col("objects"),
       Col("checkpoints"), Col("twop"), Col("primarySong"), Col("artist"),
       Col("songID"), Col("songs"), Col("SFX"), Col("rateDate") >>

AppV2ColDefs ==
    << Col("number"), Col("level"), Col("creator"), Col("ID"),
       ColWithRules("difficulty", ColDefsDifficultyRules),
       ColWithRules("rating", ColDefsRatingRules),
       Col("userCoins"), Col("estimatedTime"), Col("objects"),
       Col("checkpoints"), Col("twop"), Col("primarySong"), Col("artist"),
       Col("songID"), Col("songs"), Col("SFX"), Col("rateDate") >>

InitColDefs(v) ==
    IF v = "DemonsGridComponent" THEN DemonsColDefs
    ELSE IF v = "AppComponent" THEN AppColDefs
    ELSE AppV2ColDefs

\* the class names a column carries
ColClasses(col) == {r.cls : r \in col.cellClassRules}

\* the class names of a column configuration, per field
ClassConfig(cols) == [i \in DOMAIN cols |-> <<cols[i].field, ColClasses(cols[i])>>]

\* the classes of column col that are active on row
ActiveClasses(col, row) == {r.cls : r \in {q \in col.cellClassRules : row[q.field] = q.value}}

ColumnOf(cols, field) == cols[CHOOSE i \in DOMAIN cols : cols[i].field = field]

\* ------------------------------------------------------------------------
\* The injected inputs
\* ------------------------------------------------------------------------
NoInput == [checked |-> FALSE, disabled |-> FALSE, handlers |-> 0]

\* no comparator or formatTime call is being evaluated
NoCall == [fn |-> "none"]

\* ------------------------------------------------------------------------
\* Initial state: the component has been constructed, nothing has run
\* ------------------------------------------------------------------------
Constructed ==
    /\ view \in Views
    /\ enableRowStyle = FALSE
    /\ gridApi = "undefined"
    /\ gridReady = FALSE
    /\ rowData = Undefined
    /\ rawData = <<>>
    /\ colDefs = InitColDefs(view)
    /\ fetch = "none"
    /\ cartFetch = "none"
    /\ errorLog = 0
    /\ uncaught = 0
    /\ timers = 0
    /\ paginationPanel = FALSE
    /\ customPaginationText = 0
    /\ toggleContainer = 0
    /\ rowStyleToggle = NoInput
    /\ datasetSwitch = 0
    /\ datasetToggle = NoInput
    /\ navigations = 0
    /\ gridLog = <<>>
    /\ nFlips = 0
    /\ lastOp = "constructor"
    /\ foundExisting = FALSE

Init ==
    /\ Constructed
    /\ calc = NoCall

\* ------------------------------------------------------------------------
\* Calls on the grid api.  An entry is [call, rules]; rules is the class
\* configuration handed over by the call (<<>> for calls without one).
\* ------------------------------------------------------------------------
GridCall(call) == [call |-> call, rules |-> <<>>]
GridCallWith(call, cols) == [call |-> call, rules |-> ClassConfig(cols)]

GridApis == {"legacy", "v31", "fallback"}   \* which methods event.api offers

\* ------------------------------------------------------------------------
\* DemonsGridComponent
\* ------------------------------------------------------------------------
IsDemons == view = "DemonsGridComponent"

\* the difficulty literal with the 'insane' predicate testing 'Hard Demon'
DifficultyRules_InsaneTestsHard ==
    { Rule("easy", "difficulty", "Easy Demon"),
      Rule("medium", "difficulty", "Medium Demon"),
      Rule("hard", "difficulty", "Hard Demon"),
      Rule("insane", "difficulty", "Hard Demon"),
      Rule("extreme", "difficulty", "Extreme Demon") }

\* the rating literal with the 'legendary' predicate testing 'Epic'
RatingRules_LegendaryTestsEpic ==
    { Rule("featured", "rating", "Featured"),
      Rule("epic", "rating", "Epic"),
      Rule("legendary", "rating", "Epic"),
      Rule("mythic", "rating", "Mythic") }

\* the rule literals of updateColumnStyles
DifficultyRules ==
    { Rule("easy", "difficulty", "Easy Demon"),
      Rule("medium", "difficulty", "Medium Demon"),
      Rule("hard", "difficulty", "Hard Demon"),
      Rule("insane", "difficulty", "Insane Demon"),
      Rule("extreme", "difficulty", "Extreme Demon") }

RatingRules ==
    { Rule("featured", "rating", "Featured"),
      Rule("epic", "rating", "Epic"),
      Rule("legendary", "rating", "Legendary"),
      Rule("mythic", "rating", "Mythic") }

\* updateColumnStyles() without the branch that restores the rating rules
updateColumnStyles_NoRatingRestore(cols, enabled) ==
    [i \in DOMAIN cols |->
        IF enabled
        THEN [cols[i] EXCEPT !.hasRules = TRUE, !.cellClassRules = {}]
        ELSE IF cols[i].field = "difficulty"
             THEN [cols[i] EXCEPT !.hasRules = TRUE, !.cellClassRules = DifficultyRules]
             ELSE cols[i]]

\* updateColumnStyles() that clears the difficulty column only
updateColumnStyles_ClearDifficultyOnly(cols, enabled) ==
    [i \in DOMAIN cols |->
        IF enabled
        THEN IF cols[i].field = "difficulty"
             THEN [cols[i] EXCEPT !.hasRules = TRUE, !.cellClassRules = {}]
             ELSE cols[i]
        ELSE IF cols[i].field = "difficulty"
             THEN [cols[i] EXCEPT !.hasRules = TRUE, !.cellClassRules = DifficultyRules]
             ELSE IF cols[i].field = "rating"
                  THEN [cols[i] EXCEPT !.hasRules = TRUE, !.cellClassRules = RatingRules]
                  ELSE cols[i]]

\* updateColumnStyles(): the columns after the forEach
updateColumnStyles(cols, enabled) ==
    [i \in DOMAIN cols |->
        IF enabled
        THEN [cols[i] EXCEPT !.hasRules = TRUE, !.cellClassRules = {}]
        ELSE IF cols[i].field = "difficulty"
             THEN [cols[i] EXCEPT !.hasRules = TRUE, !.cellClassRules = DifficultyRules]
             ELSE IF cols[i].field = "rating"
                  THEN [cols[i] EXCEPT !.hasRules = TRUE, !.cellClassRules = RatingRules]
                  ELSE cols[i]]

\* applyColDefsUpdate(): the grid calls it makes
applyColDefsUpdate(api, cols) ==
    IF api = "undefined" THEN <<>>
    ELSE IF api = "legacy" THEN <<GridCallWith("setColumnDefs", cols)>>
    ELSE IF api = "v31" THEN <<GridCallWith("setGridOption", cols)>>
    ELSE <<GridCall("refreshHeader"), GridCall("refreshCells")>>

\* this.gridApi?.redrawRows()
redrawRows(api) == IF api = "undefined" THEN <<>> ELSE <<GridCall("redrawRows")>>

\* getRowStyle: "undefined" or the style's backgroundImage
NoStyle == [styled |-> FALSE, backgroundImage |-> <<>>]
Thumbnail(url) == [styled |-> TRUE, backgroundImage |-> url]

\* getRowStyle without the test of params.data.ID
DemonsGetRowStyle_NoIdTest(enabled, params) ==
    IF enabled /\ params.hasData
    THEN Thumbnail(<<"https://levelthumbs.prevter.me/thumbnail/",
                     IF params.data.ID = <<>> THEN 0 ELSE params.data.ID[1]>>)
    ELSE NoStyle

DemonsGetRowStyle(enabled, params) ==
    IF enabled /\ params.hasData /\ Truthy(params.data.ID)
    THEN Thumbnail(<<"https://levelthumbs.prevter.me/thumbnail/", params.data.ID[1]>>)
    ELSE NoStyle

\* setRowStyle(enabled) without the early return
setRowStyle_ApplyBeforeUpdate(enabled) ==
    IF enableRowStyle = enabled
    THEN UNCHANGED <<enableRowStyle, colDefs, gridLog, nFlips>>
    ELSE /\ nFlips < MaxFlips
         /\ enableRowStyle' = enabled
         /\ colDefs' = updateColumnStyles(colDefs, enabled)
         /\ gridLog' = gridLog \o applyColDefsUpdate(gridApi, colDefs) \o redrawRows(gridApi)
         /\ nFlips' = nFlips + 1

setRowStyle_NoEarlyReturn(enabled) ==
    /\ enableRowStyle # enabled => nFlips < MaxFlips
    /\ enableRowStyle' = enabled
    /\ colDefs' = updateColumnStyles(colDefs, enabled)
    /\ gridLog' = gridLog \o applyColDefsUpdate(gridApi, colDefs')
                          \o redrawRows(gridApi)
    /\ nFlips' = IF enableRowStyle # enabled THEN nFlips + 1 ELSE nFlips

\* setRowStyle(enabled): the body of the method
setRowStyle(enabled) ==
    IF enableRowStyle = enabled
    THEN UNCHANGED <<enableRowStyle, colDefs, gridLog, nFlips>>
    ELSE /\ nFlips < MaxFlips
         /\ enableRowStyle' = enabled
         /\ colDefs' = updateColumnStyles(colDefs, enabled)
         /\ gridLog' = gridLog \o applyColDefsUpdate(gridApi, colDefs')
                               \o redrawRows(gridApi)
         /\ nFlips' = nFlips + 1

SetRowStyleOp(enabled) == IF enabled THEN "setRowStyle(true)" ELSE "setRowStyle(false)"

\* setRowStyle called on the component (it is a public method)
CallSetRowStyle(enabled) ==
    /\ IsDemons
    /\ lastOp' = SetRowStyleOp(enabled)
    /\ setRowStyle(enabled)
    /\ UNCHANGED <<view, calc, gridApi, gridReady, timers, navigations>>
    /\ UNCHANGED dataVars
    /\ UNCHANGED domVars

DemonsNgOnInit_AlsoFetchesRowData ==
    /\ IsDemons
    /\ lastOp' = "DemonsNgOnInit"
    /\ fetch = "none"
    /\ fetch' = "pending"
    /\ cartFetch' = "pending"
    /\ UNCHANGED <<view, calc, timers, navigations, rowData, rawData, errorLog, uncaught>>
    /\ UNCHANGED componentVars
    /\ UNCHANGED domVars

\* ngOnInit: start the fetch of assets/demons.json
DemonsNgOnInit ==
    /\ IsDemons
    /\ lastOp' = "DemonsNgOnInit"
    /\ fetch = "none"
    /\ fetch' = "pending"
    /\ UNCHANGED <<view, calc, timers, navigations, rowData, rawData, cartFetch, errorLog, uncaught>>
    /\ UNCHANGED componentVars
    /\ UNCHANGED domVars

DemonsFetchNext_ReversedCopy(data) ==
    /\ IsDemons
    /\ lastOp' = "DemonsFetchNext"
    /\ fetch = "pending"
    /\ fetch' = "done"
    /\ rawData' = data
    /\ rowData' = Defined([i \in DOMAIN rawData' |-> rawData'[Len(rawData') + 1 - i]])
    /\ UNCHANGED <<view, calc, timers, navigations, cartFetch, errorLog, uncaught>>
    /\ UNCHANGED componentVars
    /\ UNCHANGED domVars

\* next: (data) => { rawData = data; rowData = [...rawData]; detectChanges() }
DemonsFetchNext(data) ==
    /\ IsDemons
    /\ lastOp' = "DemonsFetchNext"
    /\ fetch = "pending"
    /\ fetch' = "done"
    /\ rawData' = data
    /\ rowData' = Defined([i \in DOMAIN rawData' |-> rawData'[i]])
    /\ UNCHANGED <<view, calc, timers, navigations, cartFetch, errorLog, uncaught>>
    /\ UNCHANGED componentVars
    /\ UNCHANGED domVars

\* error: (err) => console.error(...)
DemonsFetchError ==
    /\ IsDemons
    /\ lastOp' = "DemonsFetchError"
    /\ fetch = "pending"
    /\ fetch' = "failed"
    /\ errorLog' = errorLog + 1
    /\ UNCHANGED <<view, calc, timers, navigations, rowData, rawData, cartFetch, uncaught>>
    /\ UNCHANGED componentVars
    /\ UNCHANGED domVars

\* onGridReady(event): keep the api, schedule the augmenter, sync the toggle
onGridReady(api) ==
    /\ IsDemons
    /\ lastOp' = "onGridReady"
    /\ timers < MaxTimers
    /\ gridApi \in {"undefined", api}   \* one grid version per page load
    /\ gridApi' = api
    /\ gridReady' = TRUE
    /\ timers' = timers + 1
    /\ rowStyleToggle' =
         IF toggleContainer > 0
         THEN [rowStyleToggle EXCEPT !.checked = enableRowStyle,
                                     !.disabled = (gridApi' = "undefined")]
         ELSE rowStyleToggle
    /\ UNCHANGED <<view, calc, enableRowStyle, colDefs, gridLog, nFlips, navigations>>
    /\ UNCHANGED dataVars
    /\ UNCHANGED <<foundExisting, paginationPanel, customPaginationText, toggleContainer,
                   datasetSwitch, datasetToggle>>

\* creation without the lookup by id
DemonsCreateIfMissing_NoLookup(count) == count + 1

\* "if (!element) create it": the number of elements with the id afterwards
DemonsCreateIfMissing(count) == IF count = 0 THEN count + 1 ELSE count

\* the setTimeout callback of updateCustomPaginationText
DemonsAugmenterRun ==
    /\ IsDemons
    /\ lastOp' = "DemonsAugmenterRun"
    /\ timers > 0
    /\ timers' = timers - 1
    /\ IF ~paginationPanel
       THEN UNCHANGED <<customPaginationText, toggleContainer, rowStyleToggle,
                        datasetSwitch, datasetToggle, foundExisting>>
       ELSE /\ foundExisting' = (foundExisting \/ (customPaginationText > 0 /\
                                   toggleContainer > 0 /\ datasetSwitch > 0))
            /\ customPaginationText' = DemonsCreateIfMissing(customPaginationText)
            /\ toggleContainer' = DemonsCreateIfMissing(toggleContainer)
            /\ rowStyleToggle' = [rowStyleToggle EXCEPT
                                     !.checked = enableRowStyle,
                                     !.disabled = (gridApi = "undefined"),
                                     !.handlers = 1]
            /\ datasetSwitch' = DemonsCreateIfMissing(datasetSwitch)
            /\ datasetToggle' = [datasetToggle EXCEPT !.checked = TRUE,
                                                      !.handlers = 1]
    /\ UNCHANGED <<view, calc, paginationPanel, navigations>>
    /\ UNCHANGED componentVars
    /\ UNCHANGED dataVars

\* the user flips input#rowStyleToggle; the browser then fires onchange
DemonsRowStyleToggleChange ==
    /\ IsDemons
    /\ lastOp' = "DemonsRowStyleToggleChange"
    /\ toggleContainer > 0
    /\ ~rowStyleToggle.disabled
    /\ rowStyleToggle' = [rowStyleToggle EXCEPT !.checked = ~rowStyleToggle.checked]
    /\ IF rowStyleToggle.handlers > 0
       THEN setRowStyle(rowStyleToggle'.checked)
       ELSE UNCHANGED <<enableRowStyle, colDefs, gridLog, nFlips>>
    /\ UNCHANGED <<view, calc, gridApi, gridReady, timers, navigations>>
    /\ UNCHANGED dataVars
    /\ UNCHANGED <<foundExisting, paginationPanel, customPaginationText, toggleContainer,
                   datasetSwitch, datasetToggle>>

DemonsDatasetToggleChange_NavigatesWhenChecked ==
    /\ IsDemons
    /\ lastOp' = "DemonsDatasetToggleChange"
    /\ datasetSwitch > 0
    /\ datasetToggle' = [datasetToggle EXCEPT !.checked = ~datasetToggle.checked]
    /\ IF datasetToggle.handlers > 0 /\ datasetToggle'.checked
       THEN /\ navigations < MaxNavigations
            /\ navigations' = navigations + 1
       ELSE UNCHANGED navigations
    /\ UNCHANGED <<view, calc, timers>>
    /\ UNCHANGED componentVars
    /\ UNCHANGED dataVars
    /\ UNCHANGED <<foundExisting, paginationPanel, customPaginationText, toggleContainer,
                   rowStyleToggle, datasetSwitch>>

\* the user flips input#datasetToggle; onchange navigates when unchecked
DemonsDatasetToggleChange ==
    /\ IsDemons
    /\ lastOp' = "DemonsDatasetToggleChange"
    /\ datasetSwitch > 0
    /\ datasetToggle' = [datasetToggle EXCEPT !.checked = ~datasetToggle.checked]
    /\ IF datasetToggle.handlers > 0 /\ ~datasetToggle'.checked
       THEN /\ navigations < MaxNavigations
            /\ navigations' = navigations + 1
       ELSE UNCHANGED navigations
    /\ UNCHANGED <<view, calc, timers>>
    /\ UNCHANGED componentVars
    /\ UNCHANGED dataVars
    /\ UNCHANGED <<foundExisting, paginationPanel, customPaginationText, toggleContainer,
                   rowStyleToggle, datasetSwitch>>

\* ------------------------------------------------------------------------
\* The grid (external): it renders and removes its pagination panel.  The
\* injected elements are children of the panel and leave the document
\* with it.
\* ------------------------------------------------------------------------
PanelAppears ==
    /\ view \in {"DemonsGridComponent", "AppComponent"}
    /\ lastOp' = "PanelAppears"
    /\ ~paginationPanel
    /\ paginationPanel' = TRUE
    /\ UNCHANGED <<view, calc, timers, navigations, foundExisting, customPaginationText,
                   toggleContainer, rowStyleToggle, datasetSwitch, datasetToggle>>
    /\ UNCHANGED componentVars
    /\ UNCHANGED dataVars

PanelRemoved ==
    /\ view \in {"DemonsGridComponent", "AppComponent"}
    /\ lastOp' = "PanelRemoved"
    /\ paginationPanel
    /\ paginationPanel' = FALSE
    /\ customPaginationText' = 0
    /\ toggleContainer' = 0
    /\ rowStyleToggle' = NoInput
    /\ datasetSwitch' = 0
    /\ datasetToggle' = NoInput
    /\ UNCHANGED <<view, calc, timers, navigations, foundExisting>>
    /\ UNCHANGED componentVars
    /\ UNCHANGED dataVars

DemonsNext ==
    \/ DemonsNgOnInit
    \/ \E data \in Datasets : DemonsFetchNext(data)
    \/ DemonsFetchError
    \/ \E api \in GridApis : onGridReady(api)
    \/ DemonsAugmenterRun
    \/ \E enabled \in BOOLEAN : CallSetRowStyle(enabled)
    \/ DemonsRowStyleToggleChange
    \/ DemonsDatasetToggleChange

\* ------------------------------------------------------------------------
\* AppComponent (first class of app.component.ts)
\* ------------------------------------------------------------------------
IsApp == view = "AppComponent"

AppGetRowStyle(enabled, params) ==
    IF enabled /\ params.hasData /\ Truthy(params.data.ID)
    THEN Thumbnail(<<"https://raw.githubusercontent.com/cdc-sys/level-thumbnails/main/thumbs/",
                     params.data.ID[1], ".png">>)
    ELSE NoStyle

\* the rule literals of AppComponent.updateColumnStyles
AppDifficultyRules ==
    { Rule("easy", "difficulty", "Easy Demon"),
      Rule("medium", "difficulty", "Medium Demon"),
      Rule("hard", "difficulty", "Hard Demon"),
      Rule("insane", "difficulty", "Insane Demon"),
      Rule("extreme", "difficulty", "Extreme Demon") }

AppRatingRules ==
    { Rule("featured", "rating", "Featured"),
      Rule("epic", "rating", "Epic"),
      Rule("legendary", "rating", "Legendary"),
      Rule("mythic", "rating", "Mythic") }

\* the nine-rule literal that toggleRowStyle gives to both columns
ToggleAllRules ==
    { Rule("easy", "difficulty", "Easy Demon"),
      Rule("medium", "difficulty", "Medium Demon"),
      Rule("hard", "difficulty", "Hard Demon"),
      Rule("insane", "difficulty", "Insane Demon"),
      Rule("extreme", "difficulty", "Extreme Demon"),
      Rule("featured", "rating", "Featured"),
      Rule("epic", "rating", "Epic"),
      Rule("legendary", "rating", "Legendary"),
      Rule("mythic", "rating", "Mythic") }

\* AppComponent.updateColumnStyles(): the columns after the forEach
AppUpdateColumnStyles(cols, enabled) ==
    [i \in DOMAIN cols |->
        IF enabled
        THEN [cols[i] EXCEPT !.hasRules = TRUE, !.cellClassRules = {}]
        ELSE IF cols[i].field = "difficulty"
             THEN [cols[i] EXCEPT !.hasRules = TRUE, !.cellClassRules = AppDifficultyRules]
             ELSE IF cols[i].field = "rating"
                  THEN [cols[i] EXCEPT !.hasRules = TRUE, !.cellClassRules = AppRatingRules]
                  ELSE cols[i]]

\* AppComponent.updateColumnStyles(): the grid calls after the forEach
AppUpdateColumnStylesCalls(api, cols) ==
    IF api = "undefined" THEN <<>>
    ELSE << GridCallWith("setColumnDefs", cols), GridCall("refreshCells"),
            GridCall("redrawRows"),
            GridCallWith("setColumnDefs", cols), GridCall("refreshCells") >>

\* toggleRowStyle(): this.colDefs = this.colDefs.map(...)
ToggleMapColDefs(cols, enabled) ==
    [i \in DOMAIN cols |->
        IF cols[i].field = "difficulty" \/ cols[i].field = "rating"
        THEN [cols[i] EXCEPT !.hasRules = TRUE,
                             !.cellClassRules = IF enabled THEN {} ELSE ToggleAllRules]
        ELSE cols[i]]

IfApi(api, calls) == IF api = "undefined" THEN <<>> ELSE calls

\* toggleRowStyle() entered with this.enableRowStyle = current.  The spread
\* [...this.rowData] throws a TypeError when rowData is undefined; the
\* assignments made before it stay.
toggleRowStyle(current) ==
    LET enabled == ~current
        cols1 == AppUpdateColumnStyles(colDefs, enabled)
        cols2 == ToggleMapColDefs(cols1, enabled)
        cols3 == AppUpdateColumnStyles(cols2, enabled)
    IN /\ enableRowStyle' = enabled
       /\ colDefs' = cols3
       /\ gridLog' = gridLog
            \o AppUpdateColumnStylesCalls(gridApi, cols1)
            \o IfApi(gridApi, <<GridCall("refreshCells"), GridCall("redrawRows")>>)
            \o IfApi(gridApi, <<GridCallWith("setColumnDefs", cols2),
                                GridCall("refreshCells"), GridCall("redrawRows")>>)
            \o AppUpdateColumnStylesCalls(gridApi, cols3)
            \o IfApi(gridApi, <<GridCall("redrawRows")>>)
       /\ IF rowData.has
          THEN /\ rowData' = Defined([i \in DOMAIN rowData.rows |-> rowData.rows[i]])
               /\ UNCHANGED uncaught
          ELSE /\ uncaught < MaxErrors
               /\ uncaught' = uncaught + 1
               /\ UNCHANGED rowData

\* toggleRowStyle called on the component (it is a public method)
CallToggleRowStyle ==
    /\ IsApp
    /\ lastOp' = "CallToggleRowStyle"
    /\ nFlips < MaxFlips
    /\ toggleRowStyle(enableRowStyle)
    /\ nFlips' = nFlips + 1
    /\ UNCHANGED <<view, calc, gridApi, gridReady, timers, navigations,
                   rawData, fetch, cartFetch, errorLog>>
    /\ UNCHANGED domVars

\* ngOnInit: gridOptions, cookies, start the fetch of assets/pemons.json
AppNgOnInit ==
    /\ IsApp
    /\ lastOp' = "AppNgOnInit"
    /\ fetch = "none"
    /\ fetch' = "pending"
    /\ UNCHANGED <<view, calc, timers, navigations, rowData, rawData, cartFetch, errorLog, uncaught>>
    /\ UNCHANGED componentVars
    /\ UNCHANGED domVars

\* data => { rawData = data; rowData = [...rawData];
\*           updateCustomPaginationText(); detectChanges() }
AppFetchNext(data) ==
    /\ IsApp
    /\ lastOp' = "AppFetchNext"
    /\ fetch = "pending"
    /\ timers < MaxTimers
    /\ fetch' = "done"
    /\ rawData' = data
    /\ rowData' = Defined([i \in DOMAIN rawData' |-> rawData'[i]])
    /\ timers' = timers + 1
    /\ UNCHANGED <<view, calc, navigations, cartFetch, errorLog, uncaught>>
    /\ UNCHANGED componentVars
    /\ UNCHANGED domVars

\* error => console.error(...)
AppFetchError ==
    /\ IsApp
    /\ lastOp' = "AppFetchError"
    /\ fetch = "pending"
    /\ fetch' = "failed"
    /\ errorLog' = errorLog + 1
    /\ UNCHANGED <<view, calc, timers, navigations, rowData, rawData, cartFetch, uncaught>>
    /\ UNCHANGED componentVars
    /\ UNCHANGED domVars

\* "if (!element) create it": the number of elements with the id afterwards
AppCreateIfMissing(count) == IF count = 0 THEN count + 1 ELSE count

\* the setTimeout callback of AppComponent.updateCustomPaginationText
AppAugmenterRun ==
    /\ IsApp
    /\ lastOp' = "AppAugmenterRun"
    /\ timers > 0
    /\ timers' = timers - 1
    /\ IF ~paginationPanel
       THEN UNCHANGED <<customPaginationText, toggleContainer, rowStyleToggle,
                        foundExisting>>
       ELSE /\ foundExisting' = (foundExisting \/ (customPaginationText > 0 /\
                                   toggleContainer > 0))
            /\ customPaginationText' = AppCreateIfMissing(customPaginationText)
            /\ toggleContainer' = AppCreateIfMissing(toggleContainer)
            /\ rowStyleToggle' =
                 IF toggleContainer = 0
                 THEN [checked |-> TRUE, disabled |-> FALSE, handlers |-> 1]
                 ELSE rowStyleToggle
    /\ UNCHANGED <<view, calc, paginationPanel, datasetSwitch, datasetToggle, navigations>>
    /\ UNCHANGED componentVars
    /\ UNCHANGED dataVars

\* the user flips input#rowStyleToggle; the 'change' listener then runs:
\* this.enableRowStyle = input.checked; this.toggleRowStyle()
AppRowStyleToggleChange ==
    /\ IsApp
    /\ lastOp' = "AppRowStyleToggleChange"
    /\ toggleContainer > 0
    /\ ~rowStyleToggle.disabled
    /\ rowStyleToggle' = [rowStyleToggle EXCEPT !.checked = ~rowStyleToggle.checked]
    /\ IF rowStyleToggle.handlers > 0
       THEN /\ nFlips < MaxFlips
            /\ toggleRowStyle(rowStyleToggle'.checked)
            /\ nFlips' = nFlips + 1
       ELSE UNCHANGED <<enableRowStyle, colDefs, gridLog, nFlips, rowData, uncaught>>
    /\ UNCHANGED <<view, calc, gridApi, gridReady, timers, navigations,
                   rawData, fetch, cartFetch, errorLog>>
    /\ UNCHANGED <<foundExisting, paginationPanel, customPaginationText, toggleContainer,
                   datasetSwitch, datasetToggle>>

\* the grid (external) emits gridReady; AppComponent has no handler for it.
\* Grid versions before v31 put their api on the bound gridOptions object.
AppGridReady(api) ==
    /\ IsApp
    /\ lastOp' = "AppGridReady"
    /\ ~gridReady
    /\ gridReady' = TRUE
    /\ gridApi' = api
    /\ UNCHANGED <<view, calc, enableRowStyle, colDefs, gridLog, nFlips, timers, navigations>>
    /\ UNCHANGED dataVars
    /\ UNCHANGED domVars

AppNext ==
    \/ AppNgOnInit
    \/ \E data \in Datasets : AppFetchNext(data)
    \/ AppFetchError
    \/ AppAugmenterRun
    \/ CallToggleRowStyle
    \/ AppRowStyleToggleChange
    \/ \E api \in {"undefined", "legacy"} : AppGridReady(api)

\* ------------------------------------------------------------------------
\* AppComponent, second variant (second class of app.component.ts)
\* ------------------------------------------------------------------------
IsAppV2 == view = "AppComponentV2"

\* ngOnInit: subscribe to cartService.getRowData() and to assets/pemons.json
AppV2NgOnInit ==
    /\ IsAppV2
    /\ lastOp' = "AppV2NgOnInit"
    /\ fetch = "none" /\ cartFetch = "none"
    /\ fetch' = "pending"
    /\ cartFetch' = "pending"
    /\ UNCHANGED <<view, calc, timers, navigations, rowData, rawData, errorLog, uncaught>>
    /\ UNCHANGED componentVars
    /\ UNCHANGED domVars

\* value => this.rowData = value
AppV2CartNext(value) ==
    /\ IsAppV2
    /\ lastOp' = "AppV2CartNext"
    /\ cartFetch = "pending"
    /\ cartFetch' = "done"
    /\ rowData' = Defined(value)
    /\ UNCHANGED <<view, calc, timers, navigations, rawData, fetch, errorLog, uncaught>>
    /\ UNCHANGED componentVars
    /\ UNCHANGED domVars

\* the getRowData() subscription has no error callback: the subscriber
\* rethrows the error, and nobody catches it
AppV2CartError ==
    /\ IsAppV2
    /\ lastOp' = "AppV2CartError"
    /\ cartFetch = "pending"
    /\ cartFetch' = "failed"
    /\ uncaught' = uncaught + 1
    /\ UNCHANGED <<view, calc, timers, navigations, rowData, rawData, fetch, errorLog>>
    /\ UNCHANGED componentVars
    /\ UNCHANGED domVars

\* data => { this.rawData = data; console.log(...) }
AppV2FetchNext(data) ==
    /\ IsAppV2
    /\ lastOp' = "AppV2FetchNext"
    /\ fetch = "pending"
    /\ fetch' = "done"
    /\ rawData' = data
    /\ UNCHANGED <<view, calc, timers, navigations, rowData, cartFetch, errorLog, uncaught>>
    /\ UNCHANGED componentVars
    /\ UNCHANGED domVars

\* error => console.error(...)
AppV2FetchError ==
    /\ IsAppV2
    /\ lastOp' = "AppV2FetchError"
    /\ fetch = "pending"
    /\ fetch' = "failed"
    /\ errorLog' = errorLog + 1
    /\ UNCHANGED <<view, calc, timers, navigations, rowData, rawData, cartFetch, uncaught>>
    /\ UNCHANGED componentVars
    /\ UNCHANGED domVars

AppV2Next ==
    \/ AppV2NgOnInit
    \/ \E value \in Datasets : AppV2CartNext(value)
    \/ AppV2CartError
    \/ \E data \in Datasets : AppV2FetchNext(data)
    \/ AppV2FetchError

Next ==
    \/ DemonsNext
    \/ AppNext
    \/ AppV2Next
    \/ PanelAppears
    \/ PanelRemoved

Spec == Init /\ [][Next]_vars

\* ------------------------------------------------------------------------
\* Column comparators and formatTime.  A string the code only tests for
\* identity is a TLA+ string; a string the code builds, parses or collates
\* is a sequence of characters.
\* ------------------------------------------------------------------------
MaxStrLen == 2       \* length of the songID strings compared
MaxSeconds == 7300   \* largest estimatedTime formatted

DigitChars == <<"0", "1", "2", "3", "4", "5", "6", "7", "8", "9">>

\* Array.prototype.indexOf: zero-based position of the first match, -1 if none
IndexOf(order, v) ==
    IF \E i \in DOMAIN order : order[i] = v
    THEN (CHOOSE i \in DOMAIN order :
              order[i] = v /\ \A j \in DOMAIN order : order[j] = v => i <= j) - 1
    ELSE -1

\* what a call produces: a returned value or a thrown TypeError
Returns(value) == [threw |-> FALSE, out |-> value]
Throws == [threw |-> TRUE, out |-> 0]

\* number -> decimal string, as String(n) and `${n}` produce it
RECURSIVE Digits(_)
Digits(n) ==
    IF n < 0 THEN <<"-">> \o Digits(0 - n)
    ELSE IF n < 10 THEN <<DigitChars[n + 1]>>
    ELSE Digits(n \div 10) \o <<DigitChars[(n % 10) + 1]>>

\* decimal string -> number
RECURSIVE DecimalValue(_)
DecimalValue(s) ==
    IF s = <<>> THEN 0
    ELSE DecimalValue(SubSeq(s, 1, Len(s) - 1)) * 10 + IndexOf(DigitChars, s[Len(s)])

IsDigits(s) == s # <<>> /\ \A i \in DOMAIN s : s[i] \in Range(DigitChars)

\* a songID value: a number, a string or undefined (field absent)
Num(n) == [kind |-> "number", n |-> n, s |-> <<>>]
Str(s) == [kind |-> "string", n |-> 0, s |-> s]
Undef == [kind |-> "undefined", n |-> 0, s |-> <<>>]

NaN == [nan |-> TRUE, n |-> 0]
Number(n) == [nan |-> FALSE, n |-> n]

\* ToNumber of a string: '' is 0, a signed decimal literal is its value,
\* anything else is NaN
StringToNumber(s) ==
    IF s = <<>> THEN Number(0)
    ELSE IF IsDigits(s) THEN Number(DecimalValue(s))
    ELSE IF Head(s) = "-" /\ IsDigits(Tail(s)) THEN Number(0 - DecimalValue(Tail(s)))
    ELSE NaN

ToNumber(v) ==
    CASE v.kind = "number" -> Number(v.n)
      [] v.kind = "string" -> StringToNumber(v.s)
      [] v.kind = "undefined" -> NaN

\* the global isNaN(v): ToNumber(v) is NaN
isNaN(v) == ToNumber(v).nan

\* String(v)
String(v) ==
    CASE v.kind = "number" -> Digits(v.n)
      [] v.kind = "string" -> v.s
      [] v.kind = "undefined" -> <<"u", "n", "d", "e", "f", "i", "n", "e", "d">>

\* collation order of the characters used: punctuation, digits, letters
Collation == <<"-">> \o DigitChars \o
             <<"a", "b", "c", "d", "e", "f", "g", "h", "i", "j", "k", "l", "m",
               "n", "o", "p", "q", "r", "s", "t", "u", "v", "w", "x", "y", "z">>

\* String.prototype.localeCompare: -1, 0 or 1
RECURSIVE localeCompare(_, _)
localeCompare(s, t) ==
    IF s = <<>> /\ t = <<>> THEN 0
    ELSE IF s = <<>> THEN -1
    ELSE IF t = <<>> THEN 1
    ELSE IF IndexOf(Collation, Head(s)) < IndexOf(Collation, Head(t)) THEN -1
    ELSE IF IndexOf(Collation, Head(s)) > IndexOf(Collation, Head(t)) THEN 1
    ELSE localeCompare(Tail(s), Tail(t))

\* difficulty column comparators
DemonsDifficultyComparator_Reversed(a, b) ==
    IndexOf(DifficultyOrder, b) - IndexOf(DifficultyOrder, a)

DemonsDifficultyComparator(a, b) ==
    IndexOf(DifficultyOrder, a) - IndexOf(DifficultyOrder, b)

AppDifficultyComparator(valueA, valueB) ==
    IndexOf(DifficultyOrder, valueA) - IndexOf(DifficultyOrder, valueB)

AppV2DifficultyComparator(valueA, valueB) ==
    LET indexA == IndexOf(DifficultyOrder, valueA)
        indexB == IndexOf(DifficultyOrder, valueB)
    IN  indexA - indexB

\* songID column comparators
DemonsSongIDComparator_NumericLast(a, b) ==
    LET na == ~isNaN(a)
        nb == ~isNaN(b)
    IN  IF na /\ nb THEN Returns(ToNumber(a).n - ToNumber(b).n)
        ELSE IF na THEN Returns(1)
        ELSE IF nb THEN Returns(-1)
        ELSE Returns(localeCompare(String(a), String(b)))

DemonsSongIDComparator(a, b) ==
    LET na == ~isNaN(a)
        nb == ~isNaN(b)
    IN  IF na /\ nb THEN Returns(ToNumber(a).n - ToNumber(b).n)
        ELSE IF na THEN Returns(-1)
        ELSE IF nb THEN Returns(1)
        ELSE Returns(localeCompare(String(a), String(b)))

\* valueA.localeCompare is a TypeError unless valueA is a string
AppSongIDComparator(valueA, valueB) ==
    LET isNumberA == ~isNaN(valueA)
        isNumberB == ~isNaN(valueB)
    IN  IF isNumberA /\ isNumberB THEN Returns(ToNumber(valueA).n - ToNumber(valueB).n)
        ELSE IF isNumberA THEN Returns(-1)
        ELSE IF isNumberB THEN Returns(1)
        ELSE IF valueA.kind = "string"
             THEN Returns(localeCompare(valueA.s, String(valueB)))
             ELSE Throws

\* formatTime of the two AppComponent classes
formatTime_MinutesOfTotal(seconds) ==
    LET hours == seconds \div 3600
        minutes == seconds \div 60
        secs == seconds % 60
    IN  IF hours > 0
        THEN Digits(hours) \o <<"h", " ">> \o Digits(minutes) \o <<"m", " ">>
                 \o Digits(secs) \o <<"s">>
        ELSE IF minutes > 0
        THEN Digits(minutes) \o <<"m", " ">> \o Digits(secs) \o <<"s">>
        ELSE Digits(secs) \o <<"s">>

formatTime(seconds) ==
    LET hours == seconds \div 3600
        minutes == (seconds % 3600) \div 60
        secs == seconds % 60
    IN  IF hours > 0
        THEN Digits(hours) \o <<"h", " ">> \o Digits(minutes) \o <<"m", " ">>
                 \o Digits(secs) \o <<"s">>
        ELSE IF minutes > 0
        THEN Digits(minutes) \o <<"m", " ">> \o Digits(secs) \o <<"s">>
        ELSE Digits(secs) \o <<"s">>

AppV2FormatTime(seconds) ==
    LET hours == seconds \div 3600
        minutes == (seconds % 3600) \div 60
        secs == seconds % 60
    IN  IF hours > 0
        THEN Digits(hours) \o <<"h", " ">> \o Digits(minutes) \o <<"m", " ">>
                 \o Digits(secs) \o <<"s">>
        ELSE IF minutes > 0
        THEN Digits(minutes) \o <<"m", " ">> \o Digits(secs) \o <<"s">>
        ELSE Digits(secs) \o <<"s">>

\* values the grid can hand to the functions
DifficultyLowerCase == <<"easy demon", "medium demon", "hard demon", "insane demon", "extreme demon">>
DifficultyUpperCase == <<"EASY DEMON", "MEDIUM DEMON", "HARD DEMON", "INSANE DEMON", "EXTREME DEMON">>

DifficultyInputs == DifficultyValues \cup Range(DifficultyLowerCase) \cup Range(DifficultyUpperCase)

SongChars == {"-", "7", "a", "b"}
SongStrings == UNION {[1..k -> SongChars] : k \in 0..MaxStrLen}
SongNumbers == {0, 7, 12}
SongIDInputs == {Num(n) : n \in SongNumbers} \cup {Str(s) : s \in SongStrings} \cup {Undef}

EstimatedTimes == 0..MaxSeconds

Call(fn, a, b) == [fn |-> fn, a |-> a, b |-> b, done |-> FALSE, threw |-> FALSE, out |-> 0]

\* the calls each class can receive from the grid
Calls(v) ==
    CASE v = "DemonsGridComponent" ->
             {Call("DemonsDifficultyComparator", a, b) : a \in DifficultyInputs, b \in DifficultyInputs}
             \cup {Call("DemonsSongIDComparator", a, b) : a \in SongIDInputs, b \in SongIDInputs}
      [] v = "AppComponent" ->
             {Call("AppDifficultyComparator", a, b) : a \in DifficultyInputs, b \in DifficultyInputs}
             \cup {Call("AppSongIDComparator", a, b) : a \in SongIDInputs, b \in SongIDInputs}
             \cup {Call("formatTime", s, 0) : s \in EstimatedTimes}
      [] v = "AppComponentV2" ->
             {Call("AppV2DifficultyComparator", a, b) : a \in DifficultyInputs, b \in DifficultyInputs}
             \cup {Call("AppV2FormatTime", s, 0) : s \in EstimatedTimes}

InitFunctions ==
    /\ Constructed
    /\ calc \in Calls(view)

Return(result) ==
    calc' = [calc EXCEPT !.done = TRUE, !.threw = result.threw, !.out = result.out]

CallDemonsDifficultyComparator ==
    /\ calc.fn = "DemonsDifficultyComparator" /\ ~calc.done
    /\ Return(Returns(DemonsDifficultyComparator(calc.a, calc.b)))
    /\ UNCHANGED instanceVars

CallDemonsSongIDComparator ==
    /\ calc.fn = "DemonsSongIDComparator" /\ ~calc.done
    /\ Return(DemonsSongIDComparator(calc.a, calc.b))
    /\ UNCHANGED instanceVars

CallAppDifficultyComparator ==
    /\ calc.fn = "AppDifficultyComparator" /\ ~calc.done
    /\ Return(Returns(AppDifficultyComparator(calc.a, calc.b)))
    /\ UNCHANGED instanceVars

CallAppSongIDComparator ==
    /\ calc.fn = "AppSongIDComparator" /\ ~calc.done
    /\ Return(AppSongIDComparator(calc.a, calc.b))
    /\ UNCHANGED instanceVars

CallFormatTime ==
    /\ calc.fn = "formatTime" /\ ~calc.done
    /\ Return(Returns(formatTime(calc.a)))
    /\ UNCHANGED instanceVars

CallAppV2DifficultyComparator ==
    /\ calc.fn = "AppV2DifficultyComparator" /\ ~calc.done
    /\ Return(Returns(AppV2DifficultyComparator(calc.a, calc.b)))
    /\ UNCHANGED instanceVars

CallAppV2FormatTime ==
    /\ calc.fn = "AppV2FormatTime" /\ ~calc.done
    /\ Return(Returns(AppV2FormatTime(calc.a)))
    /\ UNCHANGED instanceVars

NextFunctions ==
    \/ CallDemonsDifficultyComparator
    \/ CallDemonsSongIDComparator
    \/ CallAppDifficultyComparator
    \/ CallAppSongIDComparator
    \/ CallFormatTime
    \/ CallAppV2DifficultyComparator
    \/ CallAppV2FormatTime

SpecFunctions == InitFunctions /\ [][NextFunctions]_vars

\* ------------------------------------------------------------------------
\* Properties
\* ------------------------------------------------------------------------

\* C1: in DemonsGridComponent, whenever input#rowStyleToggle exists its
\* checked value equals enableRowStyle.
C1_ToggleInSync ==
    (IsDemons /\ toggleContainer > 0) => (rowStyleToggle.checked = enableRowStyle)

\* C2: setRowStyle(enabled) called with enabled equal to the current
\* enableRowStyle changes neither enableRowStyle nor any column's
\* cellClassRules and issues no grid call.
C2_SetRowStyleSameValueIsNoOp ==
    [][(IsDemons /\ lastOp' = SetRowStyleOp(enableRowStyle))
          => UNCHANGED <<enableRowStyle, colDefs, gridLog>>]_vars

\* setRowStyle(false) has been called with the grid api present while
\* enableRowStyle had never changed from its initial false
C2_Witness ==
    /\ IsDemons
    /\ lastOp = "setRowStyle(false)"
    /\ nFlips = 0
    /\ gridApi # "undefined"

\* C3: whenever style mode is off, in particular after it has been switched
\* on and off again, every column carries exactly the class names it
\* carried in the initial column configuration.
C3_ToggleTwiceRestoresClassRules ==
    ~enableRowStyle => ClassConfig(colDefs) = ClassConfig(InitColDefs(view))

\* style mode was switched on and off again; the columns without rules now
\* carry an empty rule object instead of none
C3_Witness ==
    /\ nFlips = 2
    /\ ~enableRowStyle
    /\ colDefs # InitColDefs(view)
    /\ view \in {"DemonsGridComponent", "AppComponent"}

ColumnRulesAgree ==
    IF enableRowStyle
    THEN \A i \in DOMAIN colDefs : ColClasses(colDefs[i]) = {}
    ELSE /\ ColClasses(ColumnOf(colDefs, "difficulty"))
              = {"easy", "medium", "hard", "insane", "extreme"}
         /\ ColClasses(ColumnOf(colDefs, "rating"))
              = {"featured", "epic", "legendary", "mythic"}

\* C4: in DemonsGridComponent style mode starts disabled, and in every state
\* the class rules agree with the mode: none on any column while enabled,
\* exactly the five difficulty and the four rating rules while disabled.
C4_ColumnRulesAgreeWithMode ==
    /\ IsDemons => ~enableRowStyle
    /\ [](IsDemons => ColumnRulesAgree)

\* style mode is on again after having been on and off
C4_Witness ==
    /\ IsDemons
    /\ enableRowStyle
    /\ nFlips = 3

DifficultyClasses == {"easy", "medium", "hard", "insane", "extreme"}
RatingClasses == {"featured", "epic", "legendary", "mythic"}

\* the class predicates read row.difficulty and row.rating only: one row
\* per pair of values
ClassRows == {row \in Rows : row.ID = <<1>>}

ActiveDifficultyClasses(row) ==
    ActiveClasses(ColumnOf(colDefs, "difficulty"), row) \cap DifficultyClasses

ActiveRatingClasses(row) ==
    ActiveClasses(ColumnOf(colDefs, "rating"), row) \cap RatingClasses

\* C5: with style mode disabled, on every row at most one difficulty class is
\* active: exactly one when the row's difficulty is one of the five
\* vocabulary values, none when it is any other value.
C5_OneDifficultyClass ==
    ~enableRowStyle =>
        \A row \in ClassRows :
            IF row.difficulty \in Range(DifficultyOrder)
            THEN Cardinality(ActiveDifficultyClasses(row)) = 1
            ELSE ActiveDifficultyClasses(row) = {}

\* style mode is off again after having been on, so the rules in force are
\* the restored ones, and rows of both kinds have been loaded
C5_Witness ==
    /\ ~enableRowStyle
    /\ nFlips = 2
    /\ rowData.has
    /\ \E i \in DOMAIN rowData.rows :
           Cardinality(ActiveDifficultyClasses(rowData.rows[i])) = 1
    /\ \E i \in DOMAIN rowData.rows :
           /\ rowData.rows[i].difficulty \notin Range(DifficultyOrder)
           /\ ActiveDifficultyClasses(rowData.rows[i]) = {}

\* C6 as claimed: with style mode disabled, on every row whose rating is one
\* of Rated, Featured, Epic, Legendary, Mythic exactly one rating class is
\* active.
C6_OneRatingClassForVocabulary ==
    ~enableRowStyle =>
        \A row \in ClassRows :
            row.rating \in Range(RatingOrder)
                => Cardinality(ActiveRatingClasses(row)) = 1

\* C6 amended: with style mode disabled, on every row whose rating is
\* Featured, Epic, Legendary or Mythic exactly one rating class is active,
\* and on a row rated Rated, like on a row with an unrecognized rating,
\* none is.
C6_OneRatingClassExceptRated ==
    ~enableRowStyle =>
        \A row \in ClassRows :
            IF row.rating \in (Range(RatingOrder) \ {"Rated"})
            THEN Cardinality(ActiveRatingClasses(row)) = 1
            ELSE ActiveRatingClasses(row) = {}

\* style mode is off again after having been on, and a row rated Rated and
\* a row rated Mythic or Featured have been loaded
C6_Witness ==
    /\ ~enableRowStyle
    /\ nFlips = 2
    /\ rowData.has
    /\ \E i \in DOMAIN rowData.rows :
           /\ rowData.rows[i].rating \in {"Rated", "Mythic", "Featured"}
           /\ Cardinality(ActiveRatingClasses(rowData.rows[i]))
                = (IF rowData.rows[i].rating = "Rated" THEN 0 ELSE 1)

\* the getRowStyle of the component at hand, in the current state
getRowStyle(params) ==
    IF IsDemons THEN DemonsGetRowStyle(enableRowStyle, params)
    ELSE AppGetRowStyle(enableRowStyle, params)

\* getRowStyle reads params.data.ID only: one row per ID value
StyleParams ==
    [hasData : BOOLEAN,
     data : {row \in Rows : row.difficulty = "Easy Demon" /\ row.rating = "Rated"}]

\* C7: in every state getRowStyle returns a thumbnail decoration keyed by
\* the row's ID exactly when enableRowStyle is true now and the row has
\* data with a truthy ID, and no style otherwise.
C7_RowStyleFollowsCurrentMode ==
    (IsDemons \/ IsApp) =>
        \A params \in StyleParams :
            /\ getRowStyle(params).styled
                 <=> (enableRowStyle /\ params.hasData /\ Truthy(params.data.ID))
            /\ getRowStyle(params).styled
                 => getRowStyle(params).backgroundImage[2] = params.data.ID[1]

\* style mode is off after having been on, and a loaded row with a truthy
\* ID, styled while the mode was on, has no style now
C7_Witness ==
    /\ IsDemons \/ IsApp
    /\ ~enableRowStyle
    /\ nFlips = 2
    /\ rowData.has
    /\ \E i \in DOMAIN rowData.rows :
           /\ Truthy(rowData.rows[i].ID)
           /\ ~getRowStyle([hasData |-> TRUE, data |-> rowData.rows[i]]).styled

\* C8: the document never holds more than one credit label, one row-style
\* toggle and one dataset toggle, however often the augmenter has run.
C8_NoDuplicateInjection ==
    /\ customPaginationText <= 1
    /\ toggleContainer <= 1
    /\ datasetSwitch <= 1

\* an augmenter run has found its elements already injected, and they are
\* still there, once each
C8_Witness ==
    /\ foundExisting
    /\ paginationPanel
    /\ customPaginationText = 1
    /\ toggleContainer = 1
    /\ lastOp \in {"DemonsAugmenterRun", "AppAugmenterRun"}

\* C9: a failing fetch leaves rowData and rawData as they were, is reported
\* with console.error, and raises no error that nobody handles.
C9_FailedFetchIsLoggedNotThrown ==
    [][((fetch = "pending" /\ fetch' = "failed")
          \/ (cartFetch = "pending" /\ cartFetch' = "failed"))
         => /\ UNCHANGED <<rowData, rawData>>
            /\ errorLog' = errorLog + 1
            /\ uncaught' = uncaught]_vars

\* C10: nothing is injected into the pagination panel before the grid has
\* signalled ready.
C10_NoInjectionBeforeGridReady ==
    (customPaginationText > 0 \/ toggleContainer > 0 \/ datasetSwitch > 0)
        => gridReady

Sign(n) == IF n < 0 THEN -1 ELSE IF n > 0 THEN 1 ELSE 0

\* rank (0..4) of a difficulty name in the table Easy < Medium < Hard <
\* Insane < Extreme Demon whatever its letter case; -1 for any other value
VocabularyRank(v) ==
    IF \E i \in DOMAIN DifficultyOrder :
           v \in {DifficultyOrder[i], DifficultyLowerCase[i], DifficultyUpperCase[i]}
    THEN (CHOOSE i \in DOMAIN DifficultyOrder :
              v \in {DifficultyOrder[i], DifficultyLowerCase[i], DifficultyUpperCase[i]}) - 1
    ELSE -1

ExactlySpelled(v) == v \in Range(DifficultyOrder)

DifficultyComparators ==
    {"DemonsDifficultyComparator", "AppDifficultyComparator", "AppV2DifficultyComparator"}

DifficultyCompared == calc.fn \in DifficultyComparators /\ calc.done

\* C11 (as stated): for two difficulty names in any letter case, the sign of
\* the difficulty comparator's result is the sign of the difference of
\* their ranks in the table.
C11_DifficultyOrderAnyCase ==
    (DifficultyCompared /\ VocabularyRank(calc.a) >= 0 /\ VocabularyRank(calc.b) >= 0)
        => Sign(calc.out) = Sign(VocabularyRank(calc.a) - VocabularyRank(calc.b))

\* C11 (amended): for two difficulty names in the table's own spelling the
\* sign of the result is the sign of the difference of their ranks; a name
\* in any other letter case is not found in the table (index -1), so it
\* sorts before every name in the table's spelling and ties with every
\* other value that is not found.
C11_DifficultyOrderExactSpelling ==
    DifficultyCompared =>
        /\ ~calc.threw
        /\ (ExactlySpelled(calc.a) /\ ExactlySpelled(calc.b))
               => Sign(calc.out) = Sign(VocabularyRank(calc.a) - VocabularyRank(calc.b))
        /\ (~ExactlySpelled(calc.a) /\ ExactlySpelled(calc.b)) => calc.out < 0
        /\ (ExactlySpelled(calc.a) /\ ~ExactlySpelled(calc.b)) => calc.out > 0
        /\ (~ExactlySpelled(calc.a) /\ ~ExactlySpelled(calc.b)) => calc.out = 0

C11_Witness ==
    /\ DifficultyCompared
    /\ calc.fn = "DemonsDifficultyComparator"
    /\ calc.a = "EXTREME DEMON" /\ calc.b = "Easy Demon"
    /\ calc.out < 0

SongIDComparators == {"DemonsSongIDComparator", "AppSongIDComparator"}

SongIDCompared == calc.fn \in SongIDComparators /\ calc.done

\* the songID values of the data: integers, and placeholder strings that are
\* not numeric (the empty string and decimal literals convert to a number)
IsInteger(v) == v.kind = "number"
IsPlaceholder(v) == v.kind = "string" /\ v.s # <<>> /\ ~IsDigits(v.s)
                        /\ ~(Head(v.s) = "-" /\ IsDigits(Tail(v.s)))
IntegerOrPlaceholder(v) == IsInteger(v) \/ IsPlaceholder(v)

\* s comes before t in dictionary order
LexLess(s, t) ==
    \E k \in 1..Len(t) :
        /\ \A i \in 1..(k - 1) : i <= Len(s) /\ s[i] = t[i]
        /\ \/ k = Len(s) + 1
           \/ k <= Len(s) /\ IndexOf(Collation, s[k]) < IndexOf(Collation, t[k])

Lexical(s, t) == IF LexLess(s, t) THEN -1 ELSE IF LexLess(t, s) THEN 1 ELSE 0

SongIDCompare(fn, a, b) ==
    IF fn = "DemonsSongIDComparator" THEN DemonsSongIDComparator(a, b)
    ELSE AppSongIDComparator(a, b)

\* C12: on integers and non-numeric placeholder strings the songID
\* comparator never throws; two numbers are ordered by their difference, a
\* number comes before a placeholder, two placeholders are ordered
\* lexically, and cmp(a, b) and cmp(b, a) have opposite signs.
C12_SongIDOrder ==
    (SongIDCompared /\ IntegerOrPlaceholder(calc.a) /\ IntegerOrPlaceholder(calc.b)) =>
        /\ ~calc.threw
        /\ (IsInteger(calc.a) /\ IsInteger(calc.b)) => calc.out = calc.a.n - calc.b.n
        /\ (IsInteger(calc.a) /\ IsPlaceholder(calc.b)) => calc.out < 0
        /\ (IsPlaceholder(calc.a) /\ IsInteger(calc.b)) => calc.out > 0
        /\ (IsPlaceholder(calc.a) /\ IsPlaceholder(calc.b))
               => Sign(calc.out) = Lexical(calc.a.s, calc.b.s)
        /\ LET reverse == SongIDCompare(calc.fn, calc.b, calc.a)
           IN  ~reverse.threw /\ Sign(reverse.out) = 0 - Sign(calc.out)

C12_Witness ==
    /\ SongIDCompared
    /\ calc.fn = "AppSongIDComparator"
    /\ calc.a = Str(<<"a", "b">>) /\ calc.b = Str(<<"a", "-">>)
    /\ ~calc.threw /\ calc.out > 0

FormatTimeFunctions == {"formatTime", "AppV2FormatTime"}

TimeFormatted == calc.fn \in FormatTimeFunctions /\ calc.done

HasUnit(out, unit) == \E i \in DOMAIN out : out[i] = unit

\* the number written by the run of digits that ends at position i
RECURSIVE NumberEndingAt(_, _)
NumberEndingAt(out, i) ==
    IF i = 0 \/ out[i] \notin Range(DigitChars) THEN 0
    ELSE NumberEndingAt(out, i - 1) * 10 + IndexOf(DigitChars, out[i])

\* the number written directly before the unit letter
UnitValue(out, unit) ==
    NumberEndingAt(out, (CHOOSE i \in DOMAIN out : out[i] = unit) - 1)

\* C13: for s seconds, with H = floor(s / 3600), M = floor((s mod 3600) / 60)
\* and S = s mod 60, formatTime(s) is 'Hh Mm Ss' when H > 0, otherwise
\* 'Mm Ss' when M > 0, otherwise 'Ss'; formatTime(0) = '0s',
\* formatTime(65) = '1m 5s', formatTime(3661) = '1h 1m 1s'.
C13_FormatTime ==
    TimeFormatted =>
        LET s == calc.a
            out == calc.out
            H == s \div 3600
            M == (s % 3600) \div 60
            S == s % 60
        IN  /\ ~calc.threw
            /\ out = IF H > 0
                     THEN Digits(H) \o <<"h", " ">> \o Digits(M) \o <<"m", " ">>
                              \o Digits(S) \o <<"s">>
                     ELSE IF M > 0
                     THEN Digits(M) \o <<"m", " ">> \o Digits(S) \o <<"s">>
                     ELSE Digits(S) \o <<"s">>
            /\ HasUnit(out, "h") <=> H > 0
            /\ HasUnit(out, "m") <=> (H > 0 \/ M > 0)
            /\ HasUnit(out, "h") => UnitValue(out, "h") = H
            /\ HasUnit(out, "m") => UnitValue(out, "m") = M
            /\ out[Len(out)] = "s" /\ UnitValue(out, "s") = S
            /\ s = 0 => out = <<"0", "s">>
            /\ s = 65 => out = <<"1", "m", " ", "5", "s">>
            /\ s = 3661 => out = <<"1", "h", " ", "1", "m", " ", "1", "s">>

C13_Witness ==
    /\ TimeFormatted
    /\ calc.fn = "formatTime"
    /\ calc.a = 3661
    /\ calc.out = <<"1", "h", " ", "1", "m", " ", "1", "s">>

\* C14: in DemonsGridComponent a change event on the dataset toggle
\* navigates (router.navigateByUrl('')) exactly when the event leaves the
\* toggle unchecked, nothing else navigates, and after every augmenter run
\* that finds the panel the dataset toggle is checked.
C14_DatasetToggleNavigation ==
    [][IsDemons =>
          /\ lastOp' = "DemonsDatasetToggleChange"
                 => /\ datasetToggle'.checked = ~datasetToggle.checked
                    /\ (navigations' = navigations + 1) <=> ~datasetToggle'.checked
                    /\ datasetToggle'.checked => navigations' = navigations
          /\ navigations' # navigations => lastOp' = "DemonsDatasetToggleChange"
          /\ (lastOp' = "DemonsAugmenterRun" /\ timers' = timers - 1 /\ paginationPanel)
                 => (datasetSwitch' > 0 /\ datasetToggle'.checked)]_vars

C14_Witness ==
    /\ IsDemons
    /\ lastOp = "DemonsDatasetToggleChange"
    /\ datasetSwitch > 0 /\ ~datasetToggle.checked
    /\ navigations = 1

\* C15: in AppComponent the row-style toggle reflects enableRowStyle: when
\* the toggle is injected its checked value equals enableRowStyle, and
\* after each change event on it has been handled enableRowStyle equals
\* the checkbox's checked value.
C15_AppToggleReflectsMode ==
    [][IsApp =>
          /\ (lastOp' = "AppAugmenterRun" /\ toggleContainer = 0 /\ toggleContainer' > 0)
                 => rowStyleToggle'.checked = enableRowStyle'
          /\ (lastOp' = "AppRowStyleToggleChange"
                  /\ rowStyleToggle'.checked # rowStyleToggle.checked)
                 => enableRowStyle' = rowStyleToggle'.checked]_vars

AugmenterRuns == {"DemonsAugmenterRun", "AppAugmenterRun"}
GridReadySignals == {"onGridReady", "AppGridReady"}

\* C16: an augmenter run that finds no pagination panel creates no element,
\* changes no component state and raises no error, and every grid-ready
\* signal schedules another augmenter run (so that a later signal with
\* the panel present leads to the injection).
C16_SkippedRunIsRetriedOnGridReady ==
    [][/\ (lastOp' \in AugmenterRuns /\ timers' = timers - 1 /\ ~paginationPanel)
              => /\ UNCHANGED <<customPaginationText, toggleContainer, rowStyleToggle,
                                datasetSwitch, datasetToggle>>
                 /\ UNCHANGED componentVars
                 /\ UNCHANGED dataVars
       /\ lastOp' \in GridReadySignals => (gridReady' /\ timers' = timers + 1)]_vars

\* number of fetches started by the component and not yet resolved
InFlight ==
    (IF fetch = "pending" THEN 1 ELSE 0) + (IF cartFetch = "pending" THEN 1 ELSE 0)

NgOnInits == {"DemonsNgOnInit", "AppNgOnInit", "AppV2NgOnInit"}

\* C17 (as stated): at any time at most one fetch started by the component
\* is in flight.
C17_AtMostOneFetchInFlight == InFlight <= 1

\* C17 (amended): a component starts fetches only in ngOnInit, and none
\* while one is in flight; DemonsGridComponent and the first AppComponent
\* start one fetch, the second AppComponent variant starts two together
\* (getRowData and assets/pemons.json), so at most two are in flight there
\* and at most one elsewhere.
C17_FetchesStartOnlyInNgOnInit ==
    [][/\ InFlight' <= (IF IsAppV2 THEN 2 ELSE 1)
       /\ InFlight' > InFlight => (lastOp' \in NgOnInits /\ InFlight = 0)
       /\ (fetch # "pending" /\ fetch' = "pending") => fetch = "none"
       /\ (cartFetch # "pending" /\ cartFetch' = "pending") => cartFetch = "none"]_vars

C17_Witness ==
    /\ IsAppV2
    /\ lastOp = "AppV2NgOnInit"
    /\ InFlight = 2

ConfigCalls == {"setColumnDefs", "setGridOption"}

\* the calls a step adds to the grid log
AddedCalls == SubSeq(gridLog', Len(gridLog) + 1, Len(gridLog'))

Redraws(calls) == {i \in DOMAIN calls : calls[i].call = "redrawRows"}
Configs(calls) == {i \in DOMAIN calls : calls[i].call \in ConfigCalls}

\* C18: in DemonsGridComponent every state-changing setRowStyle updates
\* enableRowStyle, mutates the class rules to match it, hands the updated
\* column configuration to the grid and then requests redrawRows: every
\* configuration the grid receives carries the class rules that agree
\* with the new enableRowStyle, it precedes the redraw request, and there
\* is exactly one redraw request when the grid API is available.
C18_SetRowStyleOrder ==
    [][IsDemons =>
          /\ SubSeq(gridLog', 1, Len(gridLog)) = gridLog
          /\ \A i \in Configs(AddedCalls) :
                 /\ AddedCalls[i].rules = ClassConfig(colDefs')
                 /\ ColumnRulesAgree'
                 /\ \A j \in Redraws(AddedCalls) : i < j
          /\ Redraws(AddedCalls) # {} => ColumnRulesAgree'
          /\ enableRowStyle' # enableRowStyle =>
                 /\ ColumnRulesAgree'
                 /\ IF gridApi = "undefined"
                    THEN AddedCalls = <<>>
                    ELSE /\ Redraws(AddedCalls) = {Len(AddedCalls)}
                         /\ gridApi \in {"legacy", "v31"}
                                => Cardinality(Configs(AddedCalls)) = 1
          /\ enableRowStyle' = enableRowStyle => AddedCalls = <<>>]_vars

C18_Witness ==
    /\ IsDemons
    /\ lastOp = "DemonsRowStyleToggleChange"
    /\ enableRowStyle
    /\ gridApi = "v31"
    /\ Len(gridLog) = 2
    /\ gridLog[1].call = "setGridOption" /\ gridLog[1].rules = ClassConfig(colDefs)
    /\ gridLog[2].call = "redrawRows"

\* the data fetch of DemonsGridComponent completes, with data or an error
DemonsFetchCompletes == IsDemons /\ fetch = "pending" /\ fetch' \in {"done", "failed"}

\* C19: in DemonsGridComponent the completion of the data fetch, whatever
\* has run before it, leaves enableRowStyle, every column's class rules
\* and the injected toggles unchanged; a successful completion only
\* replaces rawData and sets rowData to a copy of it in the same order,
\* and a failed one leaves both as they were.
C19_FetchCompletionFrame ==
    [][DemonsFetchCompletes =>
          /\ UNCHANGED <<enableRowStyle, colDefs, rowStyleToggle, datasetToggle>>
          /\ UNCHANGED <<gridApi, gridReady, gridLog, timers, navigations, uncaught>>
          /\ UNCHANGED <<customPaginationText, toggleContainer, datasetSwitch>>
          /\ fetch' = "done"
                 => /\ rowData'.has
                    /\ Len(rowData'.rows) = Len(rawData')
                    /\ \A i \in 1..Len(rawData') : rowData'.rows[i] = rawData'[i]
                    /\ UNCHANGED errorLog
          /\ fetch' = "failed" => UNCHANGED <<rowData, rawData>>]_vars

C19_Witness ==
    /\ IsDemons
    /\ lastOp = "DemonsFetchNext"
    /\ fetch = "done"
    /\ Len(rawData) = 2 /\ rowData = Defined(rawData)
    /\ enableRowStyle /\ toggleContainer > 0 /\ rowStyleToggle.checked
    /\ timers > 0

====
